---- MODULE Spec2Model ----
(***************************************************************************)
(* Verification model of deepcell-tf as packaged here: the image build     *)
(* (Dockerfile) and the tracking-training notebook (data combination,      *)
(* train split, path set-up, directory creation, generators).              *)
(*                                                                         *)
(* The notebook's cells and the image build are independent programs, so   *)
(* each gets its own specification over its own group of variables; the    *)
(* variables of the other groups are held at an idle value.                *)
(***************************************************************************)
EXTENDS Integers, Sequences, FiniteSets, TLC

VARIABLES
    \* ---- directory set-up cell (notebook cell 8, second half)
    fs,          \* file system: path -> "absent" | "dir" | "file"
    writable,    \* directories this process may create entries in
    d_idx,       \* position of the for loop in (MODEL_DIR, LOG_DIR)
    mk_pc,       \* "loop" | "head" | "leaf" | "done" | "raised"
    exc,         \* errno of the OSError last seen by the except clause
    attempted,   \* directories os.makedirs has been called for
    raced,       \* directories another process created while the loop ran
    \* ---- file path constants (notebook cells 7, 8 and 22)
    cwd,                  \* os.getcwd()
    data_file_exists,     \* os.path.isfile(DATA_FILE)
    filename_train,
    DATA_DIR,
    DATA_FILE,
    PREFIX,
    ROOT_DIR,
    MODEL_DIR,
    LOG_DIR,
    model_path,
    loss_path,
    tensorboard_log_dir,  \* the log directory handed to get_callbacks
    path_pc,              \* "cell7" | "cell8" | "cell22" | "done" | "raised"
    \* ---- image build (Dockerfile)
    build_arg,     \* --build-arg TF_VERSION=<value>, or "unset"
    base,          \* what the base image brings: workdir, cmd, /notebooks content
    req_src,       \* requirements.txt of the build context, a sequence of lines
    img,           \* the image under construction (a record, see DockerInit)
    step,          \* number of the Dockerfile instruction to run next
    build_status,  \* "building" | "built" | "failed"
    \* ---- combining the data sets (notebook cells 3 and 4)
    files,          \* the .trks files on disk, as far as they have been read
    n_file,         \* position of `for trks_file in trks_files`
    pos,            \* movies of the loaded file that enumerate(zip(..)) has yielded
    max_frames,
    max_y,
    max_x,
    lineages,
    X,
    y,
    k,
    movie_counter,
    i,
    combined_data,  \* what save_trks wrote to combined_data.trks
    cmb_pc,         \* "scan" | "combine" | "movies" | "done" | "raised"
    \* ---- the training portion (notebook cell 6; it reuses lineages, X, y, i)
    trks,             \* load_trks(combined_data.trks)
    total_data_size,
    train_data_range,
    idx_train,
    split_pos,        \* entries of idx_train the for loop has taken
    training_data,    \* what save_trks wrote to combined_training_data.trks
    split_pc,         \* "load" | "sample" | "loop" | "done"
    \* ---- generators and training (notebook cells 10 and 22)
    data_file,          \* the movies of DATA_FILE
    train_dict,
    test_dict,
    train_data,         \* the iterator built by datagen_train.flow
    test_data,          \* the iterator built by datagen_test.flow
    total_train_pairs,
    total_test_pairs,
    epoch,              \* epochs of fit_generator completed
    batches,            \* batches drawn in the current phase of the epoch
    trained_on,         \* movies the model was fitted on
    validated_on,       \* movies the model was validated on
    train_pc,           \* "get_data" | "flow_train" | "flow_test" | "count" |
                        \* "fit_train" | "fit_val" | "done"
    val_loss,           \* val_loss of each finished epoch, in order
    best,               \* the checkpoint callback's lowest val_loss so far
    model_file,         \* epoch whose model the file at model_path holds,
                        \* 0 while there is no file
    saves,              \* epochs at whose end the file was written
    \* ---- segmentation application (Nuclear-Application notebook)
    x_shape,            \* x.shape: <<frames, height, width>>, one channel
    image_mpp,          \* microns per pixel of x, in hundredths
    resized_shape,      \* shape of the stack rescaled to model_mpp
    labeled_shape,      \* shape of the labels the network produced
    y_pred_shape,       \* y_pred.shape
    pred_pc             \* "call" | "resized" | "labeled" | "done" | "raised"

dirVars == <<fs, writable, d_idx, mk_pc, exc, attempted, raced>>

pathVars == <<cwd, data_file_exists, filename_train, DATA_DIR, DATA_FILE, PREFIX,
              ROOT_DIR, MODEL_DIR, LOG_DIR, model_path, loss_path,
              tensorboard_log_dir, path_pc>>

dockerVars == <<build_arg, base, req_src, img, step, build_status>>

combineVars == <<files, n_file, pos, max_frames, max_y, max_x, lineages, X, y, k,
                 movie_counter, i, combined_data, cmb_pc>>

splitVars == <<trks, total_data_size, train_data_range, idx_train, split_pos,
               training_data, split_pc>>

trainVars == <<data_file, train_dict, test_dict, train_data, test_data,
               total_train_pairs, total_test_pairs, epoch, batches, trained_on,
               validated_on, train_pc, val_loss, best, model_file, saves>>

ckptVars == <<val_loss, best, model_file, saves>>

predVars == <<x_shape, image_mpp, resized_shape, labeled_shape, y_pred_shape,
              pred_pc>>

vars == <<dirVars, pathVars, dockerVars, combineVars, splitVars, trainVars,
          predVars>>

\* the value of a variable that the running program does not use
Idle == "idle"

DirsIdle ==
    /\ fs = Idle /\ writable = Idle /\ d_idx = Idle /\ mk_pc = Idle
    /\ exc = Idle /\ attempted = Idle /\ raced = Idle

PathsIdle ==
    /\ cwd = Idle /\ data_file_exists = Idle /\ filename_train = Idle
    /\ DATA_DIR = Idle /\ DATA_FILE = Idle /\ PREFIX = Idle /\ ROOT_DIR = Idle
    /\ MODEL_DIR = Idle /\ LOG_DIR = Idle /\ model_path = Idle
    /\ loss_path = Idle /\ tensorboard_log_dir = Idle /\ path_pc = Idle

DockerIdle ==
    /\ build_arg = Idle /\ base = Idle /\ req_src = Idle /\ img = Idle
    /\ step = Idle /\ build_status = Idle

CombineIdle ==
    /\ files = Idle /\ n_file = Idle /\ pos = Idle /\ max_frames = Idle
    /\ max_y = Idle /\ max_x = Idle /\ lineages = Idle /\ X = Idle /\ y = Idle
    /\ k = Idle /\ movie_counter = Idle /\ i = Idle /\ combined_data = Idle
    /\ cmb_pc = Idle

SplitIdle ==
    /\ trks = Idle /\ total_data_size = Idle /\ train_data_range = Idle
    /\ idx_train = Idle /\ split_pos = Idle /\ training_data = Idle
    /\ split_pc = Idle

TrainIdle ==
    /\ data_file = Idle /\ train_dict = Idle /\ test_dict = Idle
    /\ train_data = Idle /\ test_data = Idle /\ total_train_pairs = Idle
    /\ total_test_pairs = Idle /\ epoch = Idle /\ batches = Idle
    /\ trained_on = Idle /\ validated_on = Idle /\ train_pc = Idle
    /\ val_loss = Idle /\ best = Idle /\ model_file = Idle /\ saves = Idle

PredIdle ==
    /\ x_shape = Idle /\ image_mpp = Idle /\ resized_shape = Idle
    /\ labeled_shape = Idle /\ y_pred_shape = Idle /\ pred_pc = Idle

-----------------------------------------------------------------------------
(***************************************************************************)
(* Directory set-up: for d in (MODEL_DIR, LOG_DIR): os.makedirs(d),        *)
(* swallowing EEXIST.                                                      *)
(***************************************************************************)

ROOT_PATH == "/data"
MODEL_DIR_PATH == "/data/models"
LOG_DIR_PATH == "/data/logs"

\* the tuple the for loop iterates over
DirTuple == <<MODEL_DIR_PATH, LOG_DIR_PATH>>

FsPaths == {"/", ROOT_PATH, MODEL_DIR_PATH, LOG_DIR_PATH}

\* os.path.split(name)[0] for the paths at hand
HeadOf(p) == IF p = ROOT_PATH THEN "/" ELSE ROOT_PATH

\* The outcome of the mkdir(2) behind os.mkdir(p): path resolution first, then
\* the existence test, then the permission to write into the parent.
MkdirErrno(f, p) ==
    IF f[HeadOf(p)] = "absent" THEN "ENOENT"
    ELSE IF f[HeadOf(p)] = "file" THEN "ENOTDIR"
    ELSE IF f[p] # "absent" THEN "EEXIST"
    ELSE IF HeadOf(p) \notin writable THEN "EACCES"
    ELSE "ok"

\* the except clause: `if exc.errno != errno.EEXIST: raise`
ReRaisedNever(errno) == FALSE
ReRaisedAlways(errno) == TRUE
ReRaised(errno) == errno # "EEXIST"

\* makedirs' own `except FileExistsError: pass` around the creation of head
HeadErrorPassed(errno) == errno = "EEXIST"

CurDir == DirTuple[d_idx]

DirsInit ==
    /\ fs \in [FsPaths -> {"absent", "dir", "file"}]
    /\ fs["/"] = "dir"
    /\ fs[ROOT_PATH] # "dir" => fs[MODEL_DIR_PATH] = "absent" /\ fs[LOG_DIR_PATH] = "absent"
    /\ writable \in SUBSET {"/", ROOT_PATH}
    /\ d_idx = 1
    /\ mk_pc = "loop"
    /\ exc = "none"
    /\ attempted = {}
    /\ raced = {}
    /\ PathsIdle
    /\ DockerIdle
    /\ CombineIdle
    /\ SplitIdle
    /\ TrainIdle
    /\ PredIdle

\* the directory cell touches nothing else
DirsOnly ==
    UNCHANGED <<pathVars, dockerVars, combineVars, splitVars, trainVars, predVars>>

\* for d in (...): os.makedirs(d) is entered; makedirs tests path.exists(head)
EnterMakedirs ==
    /\ mk_pc = "loop"
    /\ d_idx <= Len(DirTuple)
    /\ attempted' = attempted \cup {CurDir}
    /\ mk_pc' = IF fs[HeadOf(CurDir)] = "absent" THEN "head" ELSE "leaf"
    /\ UNCHANGED <<fs, writable, d_idx, exc, raced>>
    /\ DirsOnly

\* the handler of the notebook applied to an OSError escaping os.makedirs
Handle(errno) ==
    /\ exc' = errno
    /\ IF ReRaised(errno)
         THEN mk_pc' = "raised" /\ d_idx' = d_idx
         ELSE mk_pc' = "loop" /\ d_idx' = d_idx + 1

\* makedirs(head): head's own head is "/", which exists, so this is mkdir(head)
MkdirHead ==
    /\ mk_pc = "head"
    /\ LET e == MkdirErrno(fs, HeadOf(CurDir)) IN
         IF e = "ok"
           THEN /\ fs' = [fs EXCEPT ![HeadOf(CurDir)] = "dir"]
                /\ mk_pc' = "leaf"
                /\ UNCHANGED <<d_idx, exc>>
           ELSE IF HeadErrorPassed(e)
             THEN /\ mk_pc' = "leaf"
                  /\ UNCHANGED <<fs, d_idx, exc>>
             ELSE /\ Handle(e)
                  /\ UNCHANGED fs
    /\ UNCHANGED <<writable, attempted, raced>>
    /\ DirsOnly

\* mkdir(name, mode); exist_ok is False, so every OSError leaves makedirs
MkdirLeaf ==
    /\ mk_pc = "leaf"
    /\ LET e == MkdirErrno(fs, CurDir) IN
         IF e = "ok"
           THEN /\ fs' = [fs EXCEPT ![CurDir] = "dir"]
                /\ mk_pc' = "loop"
                /\ d_idx' = d_idx + 1
                /\ UNCHANGED exc
           ELSE /\ Handle(e)
                /\ UNCHANGED fs
    /\ UNCHANGED <<writable, attempted, raced>>
    /\ DirsOnly

\* the tuple is exhausted: the cell ends without an exception
LoopEnd ==
    /\ mk_pc = "loop"
    /\ d_idx > Len(DirTuple)
    /\ mk_pc' = "done"
    /\ UNCHANGED <<fs, writable, d_idx, exc, attempted, raced>>
    /\ DirsOnly

\* another process (a second notebook, say) creates one of the directories
OtherProcessMkdir ==
    /\ mk_pc \in {"loop", "head", "leaf"}
    /\ \E p \in {ROOT_PATH, MODEL_DIR_PATH, LOG_DIR_PATH} :
         /\ fs[p] = "absent"
         /\ fs[HeadOf(p)] = "dir"
         /\ fs' = [fs EXCEPT ![p] = "dir"]
         /\ raced' = raced \cup {p}
    /\ UNCHANGED <<writable, d_idx, mk_pc, exc, attempted>>
    /\ DirsOnly

DirsNext ==
    \/ EnterMakedirs
    \/ MkdirHead
    \/ MkdirLeaf
    \/ LoopEnd
    \/ OtherProcessMkdir

SpecDirs == DirsInit /\ [][DirsNext]_vars

\* a step of the notebook's own process (another process leaves mk_pc alone)
OwnStep == mk_pc' # mk_pc

\* C1: when the directory the loop is at already exists, or has been created by
\* another process before or while os.makedirs runs (also between makedirs'
\* test of the parent and its creation), the EEXIST error is swallowed: no
\* exception leaves the cell and the loop goes on to the next directory.
C1_EexistSwallowed ==
    [][ /\ (mk_pc = "leaf" /\ fs[CurDir] = "dir" /\ OwnStep)
             => (mk_pc' = "loop" /\ d_idx' = d_idx + 1 /\ exc' = "EEXIST")
        /\ (mk_pc = "head" /\ fs[HeadOf(CurDir)] = "dir" /\ OwnStep)
             => (mk_pc' = "leaf" /\ d_idx' = d_idx)
      ]_vars

\* the loop finished although another process created LOG_DIR under its feet
C1_Witness ==
    /\ mk_pc = "done"
    /\ exc = "EEXIST"
    /\ LOG_DIR_PATH \in raced

\* C2: an OSError with an errno other than EEXIST is re-raised and ends the
\* loop: the cell stays stopped, and a directory later in the tuple is never
\* attempted.
C2_OtherErrnoStops ==
    /\ [](mk_pc = "raised" =>
            /\ exc \notin {"EEXIST", "none"}
            /\ attempted = {DirTuple[n] : n \in 1..d_idx})
    /\ [][ /\ (mk_pc = "leaf" /\ OwnStep
                  /\ MkdirErrno(fs, CurDir) \notin {"ok", "EEXIST"})
                => (mk_pc' = "raised" /\ d_idx' = d_idx)
           /\ (mk_pc = "head" /\ OwnStep
                  /\ MkdirErrno(fs, HeadOf(CurDir)) \notin {"ok", "EEXIST"})
                => (mk_pc' = "raised" /\ d_idx' = d_idx)
           /\ (mk_pc = "raised")
                => (mk_pc' = "raised" /\ attempted' = attempted /\ d_idx' = d_idx)
         ]_vars

\* permission denied on MODEL_DIR: raised, and LOG_DIR was never tried
C2_Witness ==
    /\ mk_pc = "raised"
    /\ d_idx = 1
    /\ exc = "EACCES"
    /\ LOG_DIR_PATH \notin attempted
    /\ fs[LOG_DIR_PATH] = "absent"

\* C15: whenever the directory loop finishes without raising, MODEL_DIR and
\* LOG_DIR both exist as directories, whatever was at those paths when the
\* cell started: nothing, a directory, or something that is not a directory.
C15_DirsExistAfterLoop ==
    mk_pc = "done" =>
        /\ fs[MODEL_DIR_PATH] = "dir"
        /\ fs[LOG_DIR_PATH] = "dir"

-----------------------------------------------------------------------------
(***************************************************************************)
(* File path constants (cells 7, 8, 22).  A path string is the record      *)
(* [abs, parts]: whether it starts with "/", and its components in order   *)
(* ("." and ".." included; the empty string has no component).             *)
(***************************************************************************)

MaxRootLen == 2    \* components of ROOT_DIR
MaxDataLen == 2    \* components of DATA_DIR
MaxSubDepth == 2   \* directories in filename_train

Path(a, ps) == [abs |-> a, parts |-> ps]

RECURSIVE SeqsUpTo(_, _)
SeqsUpTo(S, n) ==
    IF n = 0 THEN {<<>>}
    ELSE LET shorter == SeqsUpTo(S, n - 1) IN
         shorter \cup {Append(q, c) : q \in {r \in shorter : Len(r) = n - 1}, c \in S}

RootChoices == {Path(a, ps) : a \in BOOLEAN, ps \in SeqsUpTo({"data", ".", ".."}, MaxRootLen)}
DataDirChoices == {Path(a, ps) : a \in BOOLEAN, ps \in SeqsUpTo({"ds", ".."}, MaxDataLen)}
CwdChoices == {Path(TRUE, <<>>), Path(TRUE, <<"work">>)}
SubDirChoices == {ps \in SeqsUpTo({"sub"}, MaxSubDepth) : TRUE}

\* filename_train = 'combined_training_data.trks', possibly below a subdirectory
TrainFile == "combined_training_data.trks"
\* '{}.h5'.format(model_name) and '{}.npz'.format(model_name)
ModelFile == "tracking_model_seed1_tl9.h5"
LossFile == "tracking_model_seed1_tl9.npz"

\* posixpath.join(a, b): an absolute b discards a
Join(a, b) == IF b.abs THEN b ELSE Path(a.abs, a.parts \o b.parts)

\* posixpath.dirname(p): everything before the last component
Dirname(p) ==
    IF p.parts = <<>> THEN p ELSE Path(p.abs, SubSeq(p.parts, 1, Len(p.parts) - 1))

\* the loop of posixpath.normpath over the components
RECURSIVE NormComps(_, _, _)
NormComps(comps, initial_slashes, new_comps) ==
    IF comps = <<>> THEN new_comps
    ELSE LET comp == comps[1]
             rest == Tail(comps)
         IN IF comp = "." THEN NormComps(rest, initial_slashes, new_comps)
            ELSE IF \/ comp # ".."
                    \/ (~initial_slashes /\ new_comps = <<>>)
                    \/ (new_comps # <<>> /\ new_comps[Len(new_comps)] = "..")
              THEN NormComps(rest, initial_slashes, Append(new_comps, comp))
              ELSE IF new_comps # <<>>
                THEN NormComps(rest, initial_slashes, SubSeq(new_comps, 1, Len(new_comps) - 1))
                ELSE NormComps(rest, initial_slashes, new_comps)

\* posixpath.normpath(p); the empty result is '.'
Normpath(p) ==
    LET n == NormComps(p.parts, p.abs, <<>>) IN
    IF ~p.abs /\ n = <<>> THEN Path(FALSE, <<".">>) ELSE Path(p.abs, n)

\* posixpath.abspath(p): join the working directory, then normpath
Abspath(p, wd) == Normpath(IF p.abs THEN p ELSE Join(wd, p))

\* len(commonprefix([a, b])): the length of the longest common prefix
CommonLen(a, b) ==
    LET ks == {n \in 0..Len(a) : n <= Len(b) /\ \A j \in 1..n : a[j] = b[j]} IN
    CHOOSE n \in ks : \A m \in ks : m <= n

\* posixpath.relpath(path, start); raises ValueError on the empty path
RelpathRaises(path) == ~path.abs /\ path.parts = <<>>
RelpathSwapped(path, start, wd) ==
    LET start_list == Abspath(path, wd).parts
        path_list == Abspath(start, wd).parts
        common == CommonLen(start_list, path_list)
        rel_list == [n \in 1..(Len(start_list) - common) |-> ".."]
                        \o SubSeq(path_list, common + 1, Len(path_list))
    IN IF rel_list = <<>> THEN Path(FALSE, <<".">>) ELSE Path(FALSE, rel_list)
Relpath(path, start, wd) ==
    LET start_list == Abspath(start, wd).parts
        path_list == Abspath(path, wd).parts
        common == CommonLen(start_list, path_list)
        rel_list == [n \in 1..(Len(start_list) - common) |-> ".."]
                        \o SubSeq(path_list, common + 1, Len(path_list))
    IN IF rel_list = <<>> THEN Path(FALSE, <<".">>) ELSE Path(FALSE, rel_list)

PathsInit ==
    /\ cwd \in CwdChoices
    /\ data_file_exists \in BOOLEAN
    /\ ROOT_DIR \in RootChoices
    /\ DATA_DIR \in DataDirChoices
    /\ filename_train \in {Path(FALSE, Append(sub, TrainFile)) : sub \in SubDirChoices}
    /\ DATA_FILE = Idle /\ PREFIX = Idle /\ MODEL_DIR = Idle /\ LOG_DIR = Idle
    /\ model_path = Idle /\ loss_path = Idle /\ tensorboard_log_dir = Idle
    /\ path_pc = "cell7"
    /\ DirsIdle
    /\ DockerIdle
    /\ CombineIdle
    /\ SplitIdle
    /\ TrainIdle
    /\ PredIdle

PathsOnly ==
    UNCHANGED <<dirVars, dockerVars, combineVars, splitVars, trainVars, predVars>>

\* cell 7: DATA_FILE = os.path.join(DATA_DIR, filename_train); assert isfile
SetDataFile ==
    /\ path_pc = "cell7"
    /\ DATA_FILE' = Join(DATA_DIR, filename_train)
    /\ path_pc' = IF data_file_exists THEN "cell8" ELSE "raised"
    /\ UNCHANGED <<cwd, data_file_exists, filename_train, DATA_DIR, PREFIX, ROOT_DIR,
                   MODEL_DIR, LOG_DIR, model_path, loss_path, tensorboard_log_dir>>
    /\ PathsOnly

\* cell 8: PREFIX, MODEL_DIR and LOG_DIR
SetUpFilepaths ==
    /\ path_pc = "cell8"
    /\ IF RelpathRaises(Dirname(DATA_FILE))
         THEN /\ path_pc' = "raised"
              /\ UNCHANGED <<PREFIX, MODEL_DIR, LOG_DIR>>
         ELSE LET prefix == Relpath(Dirname(DATA_FILE), DATA_DIR, cwd) IN
              /\ PREFIX' = prefix
              /\ MODEL_DIR' = Abspath(Join(Join(ROOT_DIR, Path(FALSE, <<"models">>)), prefix), cwd)
              /\ LOG_DIR' = Abspath(Join(Join(ROOT_DIR, Path(FALSE, <<"logs">>)), prefix), cwd)
              /\ path_pc' = "cell22"
    /\ UNCHANGED <<cwd, data_file_exists, filename_train, DATA_DIR, DATA_FILE, ROOT_DIR,
                   model_path, loss_path, tensorboard_log_dir>>
    /\ PathsOnly

\* cell 22: model_path, loss_path and the callbacks' TensorBoard directory
SetModelPaths ==
    /\ path_pc = "cell22"
    /\ model_path' = Join(MODEL_DIR, Path(FALSE, <<ModelFile>>))
    /\ loss_path' = Join(MODEL_DIR, Path(FALSE, <<LossFile>>))
    /\ tensorboard_log_dir' = LOG_DIR
    /\ path_pc' = "done"
    /\ UNCHANGED <<cwd, data_file_exists, filename_train, DATA_DIR, DATA_FILE, PREFIX,
                   ROOT_DIR, MODEL_DIR, LOG_DIR>>
    /\ PathsOnly

PathsNext ==
    \/ SetDataFile
    \/ SetUpFilepaths
    \/ SetModelPaths

SpecPaths == PathsInit /\ [][PathsNext]_vars

\* Where a path leads, walking its components from a directory (given by its
\* components from "/"): "." stays, ".." goes up (not above "/").
RECURSIVE Walk(_, _)
Walk(from, comps) ==
    IF comps = <<>> THEN from
    ELSE IF comps[1] = "." THEN Walk(from, Tail(comps))
    ELSE IF comps[1] = ".."
      THEN Walk(IF from = <<>> THEN from ELSE SubSeq(from, 1, Len(from) - 1), Tail(comps))
      ELSE Walk(Append(from, comps[1]), Tail(comps))

\* the directory a path string names for this process
Resolve(p) == Walk(IF p.abs THEN <<>> ELSE cwd.parts, p.parts)

\* the subdirectory of DATA_DIR the data file was put in
SubDirOfData == SubSeq(filename_train.parts, 1, Len(filename_train.parts) - 1)

\* C3: MODEL_DIR is ROOT_DIR/models/PREFIX and LOG_DIR is ROOT_DIR/logs/PREFIX,
\* PREFIX leading from DATA_DIR to the directory of DATA_FILE (the data file's
\* subdirectory is mirrored below both); model_path and loss_path lie directly
\* in MODEL_DIR and TensorBoard logs to LOG_DIR, for every ROOT_DIR.
C3_PathsUnderRoot ==
    /\ path_pc \in {"cell22", "done"} =>
          /\ Walk(Resolve(DATA_DIR), PREFIX.parts) = Resolve(Dirname(DATA_FILE))
          /\ ~PREFIX.abs
          /\ MODEL_DIR = Path(TRUE, Resolve(ROOT_DIR) \o <<"models">> \o SubDirOfData)
          /\ LOG_DIR = Path(TRUE, Resolve(ROOT_DIR) \o <<"logs">> \o SubDirOfData)
    /\ path_pc = "done" =>
          /\ Dirname(model_path) = MODEL_DIR
          /\ Dirname(loss_path) = MODEL_DIR
          /\ model_path # loss_path
          /\ tensorboard_log_dir = LOG_DIR

\* a relative ROOT_DIR with a "..", and a data file two directories below DATA_DIR
C3_Witness ==
    /\ path_pc = "done"
    /\ ~ROOT_DIR.abs
    /\ ".." \in {ROOT_DIR.parts[n] : n \in 1..Len(ROOT_DIR.parts)}
    /\ Len(SubDirOfData) = 2
    /\ MODEL_DIR.parts # LOG_DIR.parts

-----------------------------------------------------------------------------
(***************************************************************************)
(* The image build: the Dockerfile's instructions, run in order.  Any      *)
(* instruction that runs a command or fetches something may fail, which    *)
(* ends the build without an image.                                        *)
(***************************************************************************)

MaxReqLines == 2   \* lines of requirements.txt

\* ARG TF_VERSION=1.15.0-gpu
DefaultTfVersion == "1.15.0-gpu"
BuildArgChoices == {"unset", "2.0.0-gpu", "1.14.0"}

\* lines a requirements.txt is made of, each a sequence of pieces of text
ReqLineChoices ==
    { <<"numpy">>,
      <<"scikit-image", ">=0.14">>,
      <<"tensorflow", ">=1.14">>,
      <<"#", "needs", "tensorflow">> }

BaseChoices ==
    [ workdir : {Path(TRUE, <<>>), Path(TRUE, <<"notebooks">>), Path(TRUE, <<"tf">>)},
      cmd : {<<"bash">>, <<"/run_jupyter.sh", "--allow-root">>},
      notebooks : {{}, {"1_hello_tensorflow.ipynb"}} ]

CoralDir == Path(TRUE, <<"coral">>)
ClassificationDir == Path(TRUE, <<"coral", "tflite", "python", "examples", "classification">>)
NotebooksDir == Path(TRUE, <<"notebooks">>)
ClassificationSubdir == Path(FALSE, <<"python", "examples", "classification">>)
IntroDir == "intro_to_tensorflow"
\* the notebooks below scripts/ in the build context
DeepcellNotebooks == {"Training a cell tracking model.ipynb", "Nuclear-Application.ipynb"}
JupyterCmd == <<"jupyter", "notebook", "--ip=0.0.0.0", "--allow-root">>

\* the archive an apt package comes from
AptSourceOf(pkg) == IF pkg = "libedgetpu1-std" THEN "coral-edgetpu-stable" ELSE "ubuntu"

\* the value of ARG TF_VERSION: the --build-arg if given, else the default
ArgValueIgnoresGiven(given) == DefaultTfVersion
ArgValue(given) == IF given = "unset" THEN DefaultTfVersion ELSE given

\* FROM tensorflow/tensorflow:${TF_VERSION}-py3 with ${TF_VERSION} substituted
FromReference(tf_version) == <<"tensorflow/tensorflow", ":", tf_version, "-py3">>

\* WORKDIR path: an absolute path replaces the working directory
WorkdirRelative(cur, path) == Path(cur.abs, cur.parts \o path.parts)
Workdir(cur, path) == Join(cur, path)

\* does the regular expression (a literal text) match somewhere in the line
RegexSearch(pattern, line) == \E n \in 1..Len(line) : line[n] = pattern

\* sed -i "/tensorflow/d" file: delete every line the expression matches
SedDeleteWholeLine(file) == SelectSeq(file, LAMBDA line : line # <<"tensorflow">>)
SedDelete(file) == SelectSeq(file, LAMBDA line : ~RegexSearch("tensorflow", line))

\* the requirements pip install -r takes from a file: comment lines are skipped
PipRequirements(file) == SelectSeq(file, LAMBDA line : line[1] # "#")

DockerInit ==
    /\ build_arg \in BuildArgChoices
    /\ base \in BaseChoices
    /\ req_src \in SeqsUpTo(ReqLineChoices, MaxReqLines)
    /\ img = [ TF_VERSION |-> "undefined",
               base_image |-> <<>>,
               workdir |-> Path(TRUE, <<>>),
               cmd |-> <<>>,
               notebooks_top |-> {},       \* entries of /notebooks
               notebooks_intro |-> {},     \* entries of /notebooks/intro_to_tensorflow
               notebooks_at |-> {},        \* directories scripts/ was copied into
               req_copied |-> FALSE,      \* /opt/deepcell-tf/requirements.txt exists
               req_file |-> <<>>,          \* its lines
               pip_installed |-> <<>>,     \* what pip install -r installed
               deepcell_copied |-> FALSE,
               deepcell_installed |-> FALSE,
               apt_sources |-> {"ubuntu"},
               apt_keys |-> {"ubuntu"},
               apt_lists |-> {},           \* archives whose package lists are present
               apt_installed |-> {},
               apt_log |-> <<>>,           \* apt operations, in order
               coral_dir |-> FALSE,
               tflite_at |-> {},           \* directories holding a clone of tflite
               tflite_requirements |-> FALSE ]
    /\ step = 1
    /\ build_status = "building"
    /\ DirsIdle
    /\ PathsIdle
    /\ CombineIdle
    /\ SplitIdle
    /\ TrainIdle
    /\ PredIdle

DockerOnly ==
    UNCHANGED <<dirVars, pathVars, combineVars, splitVars, trainVars, predVars,
                build_arg, base, req_src>>

At(n) == build_status = "building" /\ step = n

\* the instruction succeeded and left the image `new`
Goes(new) ==
    /\ img' = new
    /\ step' = step + 1
    /\ build_status' = "building"
    /\ DockerOnly

\* the instruction's command exits non-zero
Fails ==
    /\ build_status' = "failed"
    /\ UNCHANGED <<img, step>>
    /\ DockerOnly

\* apt-get update: fetches the lists of every source, all of which need a key
AptUpdateOk(image) == \A src \in image.apt_sources : src \in image.apt_keys
AptUpdate(image) ==
    [image EXCEPT !.apt_lists = image.apt_sources, !.apt_log = Append(@, "update")]

\* apt-get install -y pkgs: every package must be in a list that is present
AptInstallOk(image, pkgs) == \A pkg \in pkgs : AptSourceOf(pkg) \in image.apt_lists
AptInstall(image, pkgs) ==
    [image EXCEPT !.apt_installed = @ \cup pkgs, !.apt_log = Append(@, "install")]

\* rm -rf /var/lib/apt/lists/*
AptRmLists(image) == [image EXCEPT !.apt_lists = {}, !.apt_log = Append(@, "rm_lists")]

ArgTfVersion ==
    /\ At(1)
    /\ Goes([img EXCEPT !.TF_VERSION = ArgValue(build_arg)])

From ==
    /\ At(2)
    /\ Goes([img EXCEPT !.base_image = FromReference(img.TF_VERSION),
                        !.workdir = base.workdir,
                        !.cmd = base.cmd,
                        !.notebooks_top = base.notebooks])

RunSystemMaintenance ==
    /\ At(3)
    /\ LET pkgs == {"python3-tk", "git", "libsm6"}
           updated == AptUpdate(img)
       IN IF AptUpdateOk(img) /\ AptInstallOk(updated, pkgs)
            THEN Goes(AptRmLists(AptInstall(updated, pkgs)))
            ELSE Fails

CopyRequirements ==
    /\ At(4)
    /\ Goes([img EXCEPT !.req_copied = TRUE, !.req_file = req_src])

RunInstallRequirements ==
    /\ At(5)
    /\ IF ~img.req_copied
         THEN Fails
         ELSE LET edited == SedDelete(img.req_file) IN
              Goes([img EXCEPT !.req_file = edited,
                               !.pip_installed = PipRequirements(edited)])

CopyDeepcell ==
    /\ At(6)
    /\ Goes([img EXCEPT !.deepcell_copied = TRUE])

RunInstallDeepcell ==
    /\ At(7)
    /\ IF img.deepcell_copied
         THEN Goes([img EXCEPT !.deepcell_installed = TRUE])
         ELSE Fails

RunKerasApplications ==
    /\ At(8)
    /\ IF "git" \in img.apt_installed THEN Goes(img) ELSE Fails

RunAptKey ==
    /\ At(9)
    /\ Goes([img EXCEPT !.apt_keys = @ \cup {"coral-edgetpu-stable"},
                        !.apt_log = Append(@, "key")])

RunAptSource ==
    /\ At(10)
    /\ Goes([img EXCEPT !.apt_sources = @ \cup {"coral-edgetpu-stable"},
                        !.apt_log = Append(@, "source")])

\* the build without the instruction of line 39
RunAptUpdateOmitted ==
    /\ At(11)
    /\ Goes(img)

RunAptUpdate ==
    /\ At(11)
    /\ IF AptUpdateOk(img) THEN Goes(AptUpdate(img)) ELSE Fails

RunInstallEdgetpu ==
    /\ At(12)
    /\ IF AptInstallOk(img, {"libedgetpu1-std"})
         THEN Goes(AptInstall(img, {"libedgetpu1-std"}))
         ELSE Fails

RunMkdirCoral ==
    /\ At(13)
    /\ IF img.coral_dir THEN Fails ELSE Goes([img EXCEPT !.coral_dir = TRUE])

WorkdirCoral ==
    /\ At(14)
    /\ Goes([img EXCEPT !.workdir = Workdir(img.workdir, CoralDir)])

RunGitClone ==
    /\ At(15)
    /\ IF "git" \in img.apt_installed
         THEN Goes([img EXCEPT !.tflite_at = @ \cup {Join(img.workdir, Path(FALSE, <<"tflite">>))}])
         ELSE Fails

RunPipTfliteRuntime ==
    /\ At(16)
    /\ Goes(img)

WorkdirClassification ==
    /\ At(17)
    /\ Goes([img EXCEPT !.workdir = Workdir(img.workdir, ClassificationDir)])

RunInstallRequirementsSh ==
    /\ At(18)
    /\ IF \E t \in img.tflite_at : img.workdir = Join(t, ClassificationSubdir)
         THEN Goes([img EXCEPT !.tflite_requirements = TRUE])
         ELSE Fails

WorkdirNotebooks ==
    /\ At(19)
    /\ Goes([img EXCEPT !.workdir = Workdir(img.workdir, NotebooksDir)])

\* find /notebooks/ -prune always prints the directory, so the branch is taken
RunMoveOldNotebooks ==
    /\ At(20)
    /\ Goes([img EXCEPT !.notebooks_top = {IntroDir},
                        !.notebooks_intro = img.notebooks_top \ {IntroDir}])

CopyScripts ==
    /\ At(21)
    /\ Goes([img EXCEPT !.notebooks_at = @ \cup {NotebooksDir},
                        !.notebooks_top = @ \cup DeepcellNotebooks])

Cmd ==
    /\ At(22)
    /\ img' = [img EXCEPT !.cmd = JupyterCmd]
    /\ step' = step + 1
    /\ build_status' = "built"
    /\ DockerOnly

\* instructions that run a command in the image or fetch from outside
FallibleSteps == {2, 3, 4, 5, 6, 7, 8, 9, 10, 11, 12, 13, 15, 16, 18, 20, 21}

StepFails ==
    /\ build_status = "building"
    /\ step \in FallibleSteps
    /\ Fails

DockerNext ==
    \/ ArgTfVersion
    \/ From
    \/ RunSystemMaintenance
    \/ CopyRequirements
    \/ RunInstallRequirements
    \/ CopyDeepcell
    \/ RunInstallDeepcell
    \/ RunKerasApplications
    \/ RunAptKey
    \/ RunAptSource
    \/ RunAptUpdate
    \/ RunInstallEdgetpu
    \/ RunMkdirCoral
    \/ WorkdirCoral
    \/ RunGitClone
    \/ RunPipTfliteRuntime
    \/ WorkdirClassification
    \/ RunInstallRequirementsSh
    \/ WorkdirNotebooks
    \/ RunMoveOldNotebooks
    \/ CopyScripts
    \/ Cmd
    \/ StepFails

SpecDocker == DockerInit /\ [][DockerNext]_vars

\* C4: whatever WORKDIR directives the build went through, each takes effect
\* for the instructions after it, and the built image starts
\* `jupyter notebook --ip=0.0.0.0 --allow-root` in /notebooks, the directory
\* the deepcell notebooks were copied into.
C4_CmdAndWorkdir ==
    /\ step \in 15..17 => img.workdir = Path(TRUE, <<"coral">>)
    /\ step \in 18..19 =>
          img.workdir = Path(TRUE, <<"coral", "tflite", "python", "examples", "classification">>)
    /\ step >= 20 => img.workdir = Path(TRUE, <<"notebooks">>)
    /\ build_status = "built" =>
          /\ img.cmd = <<"jupyter", "notebook", "--ip=0.0.0.0", "--allow-root">>
          /\ img.workdir = Path(TRUE, <<"notebooks">>)
          /\ img.notebooks_at = {img.workdir}
          /\ DeepcellNotebooks \subseteq img.notebooks_top

\* an image built on a base that had its own working directory, command and notebooks
C4_Witness ==
    /\ build_status = "built"
    /\ base.workdir = Path(TRUE, <<"tf">>)
    /\ base.cmd # img.cmd
    /\ base.notebooks # {}
    /\ img.workdir # base.workdir

\* C5: the base image is tensorflow/tensorflow:<TF_VERSION>-py3 for every value
\* given for the build argument, and tensorflow/tensorflow:1.15.0-gpu-py3 when
\* none is given.
C5_BaseImage ==
    step > 2 =>
       /\ build_arg # "unset" =>
             img.base_image = <<"tensorflow/tensorflow", ":", build_arg, "-py3">>
       /\ build_arg = "unset" =>
             img.base_image = <<"tensorflow/tensorflow", ":", "1.15.0-gpu", "-py3">>

\* a build with --build-arg TF_VERSION=2.0.0-gpu went through
C5_Witness ==
    /\ build_status = "built"
    /\ build_arg = "2.0.0-gpu"
    /\ img.base_image[3] = "2.0.0-gpu"
    /\ img.base_image[4] = "-py3"

\* the line contains the text tensorflow
NamesTensorflow(line) == \E n \in DOMAIN line : line[n] = "tensorflow"
IsRequirement(line) == line[1] # "#"
LinesOf(file) == {file[n] : n \in DOMAIN file}

\* C6: once the requirements step has run, no line naming tensorflow is left in
\* /opt/deepcell-tf/requirements.txt and none was handed to pip, every other
\* line is kept (in order) and every other requirement was installed; the
\* deepcell package is copied and installed only after that.
C6_RequirementsBeforeDeepcell ==
    /\ step <= 5 => img.pip_installed = <<>> /\ ~img.deepcell_copied
    /\ step > 5 =>
          /\ \A line \in LinesOf(img.req_file) \cup LinesOf(img.pip_installed) :
                ~NamesTensorflow(line)
          /\ img.req_file = SelectSeq(req_src, LAMBDA line : ~NamesTensorflow(line))
          /\ \A line \in LinesOf(req_src) :
                (IsRequirement(line) /\ ~NamesTensorflow(line))
                    => line \in LinesOf(img.pip_installed)
    /\ img.deepcell_installed => img.deepcell_copied

\* a built image whose requirements.txt named tensorflow and something else
C6_Witness ==
    /\ build_status = "built"
    /\ <<"tensorflow", ">=1.14">> \in LinesOf(req_src)
    /\ <<"numpy">> \in LinesOf(req_src)
    /\ img.pip_installed = << <<"numpy">> >>
    /\ img.deepcell_installed

\* an apt-get update is in the log before position j, with no deletion of
\* /var/lib/apt/lists between it and j
UpdatedBefore(log, j) ==
    \E u \in 1..(j - 1) :
        /\ log[u] = "update"
        /\ \A r \in (u + 1)..(j - 1) : log[r] # "rm_lists"

\* the Coral key and source were both added before an update that precedes j
CoralUpdatedBefore(log, j) ==
    \E key \in 1..(j - 1), source \in 1..(j - 1), u \in 1..(j - 1) :
        /\ log[key] = "key"
        /\ log[source] = "source"
        /\ log[u] = "update"
        /\ key < u
        /\ source < u
        /\ \A r \in (u + 1)..(j - 1) : log[r] # "rm_lists"

\* C14: libedgetpu1-std is installed only after the Coral apt key and the
\* coral-edgetpu-stable source entry have both been added and an apt-get
\* update has run after them; every apt-get install of the build is preceded
\* by an apt-get update that comes after the last deletion of
\* /var/lib/apt/lists.
C14_UpdateBeforeInstall ==
    /\ \A j \in DOMAIN img.apt_log :
          img.apt_log[j] = "install" => UpdatedBefore(img.apt_log, j)
    /\ At(12) =>
          /\ "coral-edgetpu-stable" \in img.apt_keys
          /\ "coral-edgetpu-stable" \in img.apt_sources
          /\ "coral-edgetpu-stable" \in img.apt_lists
          /\ CoralUpdatedBefore(img.apt_log, Len(img.apt_log) + 1)
    /\ "libedgetpu1-std" \in img.apt_installed =>
          /\ img.apt_log[Len(img.apt_log)] = "install"
          /\ CoralUpdatedBefore(img.apt_log, Len(img.apt_log))

\* the finished build: the system packages, their lists deleted, then the
\* key, the source, the update and the Edge TPU runtime
C14_Witness ==
    /\ build_status = "built"
    /\ "libedgetpu1-std" \in img.apt_installed
    /\ img.apt_log = <<"update", "install", "rm_lists", "key", "source", "update",
                       "install">>

-----------------------------------------------------------------------------
(***************************************************************************)
(* Combining the data sets (cells 3 and 4).  A movie is known by its       *)
(* source <<file, index in the file>>; of an array only the shape          *)
(* <<frames, height, width>> is kept (the channel axis is always 1).       *)
(***************************************************************************)

\* trks_files lists four files; both loops are generic in the list, which is
\* modelled with NumFiles entries
NumFiles == 2
MaxMovies == 2    \* movies in one .trks file

\* frames of a movie; a file can hold movies without a frame
FrameChoices == {0, 1, 2}
SideChoices == {1, 2, 3}
ShapeChoices == {<<f, h, w>> : f \in FrameChoices, h \in SideChoices, w \in SideChoices}

NoShape == <<0, 0, 0>>

\* the pair np.pad gets for a spatial axis of the given size
PadWidthEvenOnly(size, max_size) ==
    IF size < max_size
      THEN LET diff2pad == max_size - size
               pad_width == diff2pad \div 2
           IN <<pad_width, pad_width>>
      ELSE <<0, 0>>
PadWidth(size, max_size) ==
    IF size < max_size
      THEN LET diff2pad == max_size - size
               pad_width == diff2pad \div 2
           IN IF diff2pad % 2 = 0
                THEN <<pad_width, pad_width>>
                ELSE <<pad_width + 1, pad_width>>
      ELSE <<0, 0>>

\* the pair np.pad gets for the frame axis
PadFrames(size, max_size) ==
    IF size < max_size THEN <<0, max_size - size>> ELSE <<0, 0>>

\* np.pad(array, ...) with the pair `width` on `axis` (1 frames, 2 height, 3 width)
NpPad(shape, axis, width) == [shape EXCEPT ![axis] = width[1] + @ + width[2]]

\* the padding of raw and, by the same widths, of tracked
Padded(raw_shape, tracked_shape) ==
    LET wy == PadWidth(raw_shape[2], max_y)
        raw1 == NpPad(raw_shape, 2, wy)
        trk1 == NpPad(tracked_shape, 2, wy)
        wx == PadWidth(raw1[3], max_x)
        raw2 == NpPad(raw1, 3, wx)
        trk2 == NpPad(trk1, 3, wx)
        wf == PadFrames(raw2[1], max_frames)
    IN [raw |-> NpPad(raw2, 1, wf), tracked |-> NpPad(trk2, 1, wf)]

\* what enumerate(zip(trks['lineages'], trks['X'], trks['y'])) yields at index n
ZipLineageOfFirst(file, n) ==
    [lineage |-> <<file, 0>>,
     raw |-> [src |-> <<file, n>>, shape |-> files[file].shape],
     tracked |-> [src |-> <<file, n>>, shape |-> files[file].shape]]
ZipEntry(file, n) ==
    [lineage |-> <<file, n>>,
     raw |-> [src |-> <<file, n>>, shape |-> files[file].shape],
     tracked |-> [src |-> <<file, n>>, shape |-> files[file].shape]]

\* the three comparisons of one iteration of cell 3 taken together: all
\* three maxima follow the file that exceeds any of them
ScanMaximaTogether(shape, maxima) ==
    IF shape[1] > maxima[1] \/ shape[2] > maxima[2] \/ shape[3] > maxima[3]
      THEN shape
      ELSE maxima

\* the three comparisons of one iteration of cell 3, each on its own axis
ScanMaxima(shape, maxima) ==
    <<IF shape[1] > maxima[1] THEN shape[1] ELSE maxima[1],
      IF shape[2] > maxima[2] THEN shape[2] ELSE maxima[2],
      IF shape[3] > maxima[3] THEN shape[3] ELSE maxima[3]>>

CombineInit ==
    /\ files = [n \in 1..NumFiles |-> [shape |-> NoShape, movies |-> 0]]
    /\ n_file = 1
    /\ pos = 0
    /\ max_frames = 1
    /\ max_y = 1
    /\ max_x = 1
    /\ lineages = <<>> /\ X = <<>> /\ y = <<>>
    /\ k = 0 /\ movie_counter = 0 /\ i = 0
    /\ combined_data = <<>>
    /\ cmb_pc = "scan"
    /\ DirsIdle
    /\ PathsIdle
    /\ DockerIdle
    /\ SplitIdle
    /\ TrainIdle
    /\ PredIdle

CombineOnly ==
    UNCHANGED <<dirVars, pathVars, dockerVars, splitVars, trainVars, predVars>>

\* cell 3, one iteration: load the file and compare its first movie's shape
\* (a file without a movie makes trks['X'][0] raise IndexError)
ScanFile ==
    /\ cmb_pc = "scan"
    /\ n_file <= NumFiles
    /\ \E shape \in ShapeChoices, has_movie \in BOOLEAN :
         /\ files' = [files EXCEPT ![n_file].shape = shape]
         /\ IF has_movie
              THEN /\ max_frames' = ScanMaxima(shape, <<max_frames, max_y, max_x>>)[1]
                   /\ max_y' = ScanMaxima(shape, <<max_frames, max_y, max_x>>)[2]
                   /\ max_x' = ScanMaxima(shape, <<max_frames, max_y, max_x>>)[3]
                   /\ n_file' = n_file + 1
                   /\ cmb_pc' = "scan"
              ELSE /\ cmb_pc' = "raised"
                   /\ UNCHANGED <<max_frames, max_y, max_x, n_file>>
    /\ UNCHANGED <<pos, lineages, X, y, k, movie_counter, i, combined_data>>
    /\ CombineOnly

\* cell 4 begins: the empty lists and the counters
StartCombine ==
    /\ cmb_pc = "scan"
    /\ n_file > NumFiles
    /\ lineages' = <<>> /\ X' = <<>> /\ y' = <<>>
    /\ k' = 0
    /\ movie_counter' = 0
    /\ n_file' = 1
    /\ cmb_pc' = "combine"
    /\ UNCHANGED <<files, pos, max_frames, max_y, max_x, i, combined_data>>
    /\ CombineOnly

\* trks = load_trks(trks_file) for the next file
LoadFile ==
    /\ cmb_pc = "combine"
    /\ n_file <= NumFiles
    /\ pos' = 0
    /\ cmb_pc' = "movies"
    /\ UNCHANGED <<files, n_file, max_frames, max_y, max_x, lineages, X, y, k,
                   movie_counter, i, combined_data>>
    /\ CombineOnly

\* one pass of the inner loop body: normalise, pad, append
ProcessMovie ==
    /\ cmb_pc = "movies"
    /\ pos < MaxMovies
    /\ LET entry == ZipEntry(n_file, pos)
           padded == Padded(entry.raw.shape, entry.tracked.shape)
       IN /\ i' = pos
          /\ movie_counter' = k + pos
          /\ lineages' = Append(lineages, entry.lineage)
          /\ X' = Append(X, [src |-> entry.raw.src, shape |-> padded.raw, normed |-> TRUE])
          /\ y' = Append(y, [src |-> entry.tracked.src, shape |-> padded.tracked])
    /\ pos' = pos + 1
    /\ UNCHANGED <<files, n_file, max_frames, max_y, max_x, k, combined_data, cmb_pc>>
    /\ CombineOnly

\* the file has no further movie: k = movie_counter + 1, on to the next file
EndOfFile ==
    /\ cmb_pc = "movies"
    /\ pos >= 1
    /\ files' = [files EXCEPT ![n_file].movies = pos]
    /\ k' = movie_counter + 1
    /\ n_file' = n_file + 1
    /\ cmb_pc' = "combine"
    /\ UNCHANGED <<pos, max_frames, max_y, max_x, lineages, X, y, movie_counter, i,
                   combined_data>>
    /\ CombineOnly

\* save_trks(os.path.join(basepath, 'combined_data.trks'), lineages, X, y)
SaveCombined ==
    /\ cmb_pc = "combine"
    /\ n_file > NumFiles
    /\ combined_data' = <<[lineages |-> lineages, X |-> X, y |-> y]>>
    /\ cmb_pc' = "done"
    /\ UNCHANGED <<files, n_file, pos, max_frames, max_y, max_x, lineages, X, y, k,
                   movie_counter, i>>
    /\ CombineOnly

CombineNext ==
    \/ ScanFile
    \/ StartCombine
    \/ LoadFile
    \/ ProcessMovie
    \/ EndOfFile
    \/ SaveCombined

SpecCombine == CombineInit /\ [][CombineNext]_vars

InCell4 == cmb_pc \in {"combine", "movies", "done"}
MaxShape == <<max_frames, max_y, max_x>>

\* C7: every raw movie and every label movie collected, and so every one
\* written to combined_data.trks, has max_frames frames, height max_y and
\* width max_x, whatever the shapes of the source files (one shape per file,
\* raw and tracked alike).
C7_UniformShape ==
    /\ InCell4 =>
          /\ \A n \in DOMAIN X : X[n].shape = MaxShape
          /\ \A n \in DOMAIN y : y[n].shape = MaxShape
    /\ cmb_pc = "done" =>
          /\ Len(combined_data) = 1
          /\ \A n \in DOMAIN combined_data[1].X : combined_data[1].X[n].shape = MaxShape
          /\ \A n \in DOMAIN combined_data[1].y : combined_data[1].y[n].shape = MaxShape

\* saved, with a file that needed an even height pad, an odd width pad and a frame pad
C7_Witness ==
    /\ cmb_pc = "done"
    /\ files[1].shape = <<1, 1, 2>>
    /\ files[2].shape = <<2, 3, 3>>
    /\ Len(combined_data[1].X) = 3
    /\ combined_data[1].X[1].src = <<1, 0>>
    /\ combined_data[1].X[1].shape = <<2, 3, 3>>

\* the sources of the movies processed so far: the finished files in order,
\* each with its movies in order, then the movies yielded of the loaded file
RECURSIVE MoviesOfFiles(_)
MoviesOfFiles(n) ==
    IF n = 0 THEN <<>>
    ELSE MoviesOfFiles(n - 1) \o [m \in 1..files[n].movies |-> <<n, m - 1>>]
ProcessedSoFar ==
    MoviesOfFiles(n_file - 1)
        \o (IF cmb_pc = "movies" THEN [m \in 1..pos |-> <<n_file, m - 1>>] ELSE <<>>)

\* C10: after every iteration of the combining loop lineages, X and y have the
\* same length, the number of movies processed so far; their entries at one
\* position come from the same source movie; and the movies appear in file
\* order, then in their order within the file.
C10_ListsAligned ==
    InCell4 =>
       /\ Len(lineages) = Len(X)
       /\ Len(X) = Len(y)
       /\ Len(X) = Len(ProcessedSoFar)
       /\ \A n \in DOMAIN X :
             /\ lineages[n] = ProcessedSoFar[n]
             /\ X[n].src = ProcessedSoFar[n]
             /\ y[n].src = ProcessedSoFar[n]

\* inside the second file, after its second movie, two movies of the first before it
C10_Witness ==
    /\ cmb_pc = "movies"
    /\ n_file = 2
    /\ pos = 2
    /\ files[1].movies = 2
    /\ lineages = << <<1, 0>>, <<1, 1>>, <<2, 0>>, <<2, 1>> >>

\* the largest of a non-empty set of numbers
MaxOf(S) == CHOOSE n \in S : \A m \in S : m <= n

\* the sizes, on one axis, of the first movies of all files
FirstMovieSizes(axis) == {files[n].shape[axis] : n \in 1..NumFiles}

ScanFinished == n_file > NumFiles /\ cmb_pc # "raised"

\* C13: after the scan over trks_files, max_frames, max_y and max_x are each
\* the larger of 1 and the largest frame count, height and width among the
\* files' first movies; each is found on its own and may come from another file.
C13_IndependentMaxima ==
    ScanFinished =>
        /\ max_frames = MaxOf({1} \cup FirstMovieSizes(1))
        /\ max_y = MaxOf({1} \cup FirstMovieSizes(2))
        /\ max_x = MaxOf({1} \cup FirstMovieSizes(3))

\* the first file has no frame and is the widest, the second is the tallest:
\* max_frames stays 1, max_y comes from the second file, max_x from the first
C13_Witness ==
    /\ ScanFinished
    /\ files[1].shape = <<0, 2, 3>>
    /\ files[2].shape = <<0, 3, 1>>
    /\ max_frames = 1
    /\ max_y = 3
    /\ max_x = 3

-----------------------------------------------------------------------------
(***************************************************************************)
(* The training portion (cell 6): a random sample of the combined movies   *)
(* is saved as combined_training_data.trks.  Movie n of the combined file  *)
(* is known by its index; its lineage, raw and label arrays carry it.      *)
(***************************************************************************)

MaxTotal == 4     \* movies in combined_data.trks

\* test_size = .1, in percent
TestSizePercent == 10

\* int(total_data_size * (1 - test_size)): the product is rounded towards zero
\* (the double 1 - .1 is the double .9, just above 9/10, so the product of a
\* multiple of ten is not below its exact value)
TrainDataRangeRounded(total) == (total * (100 - TestSizePercent) + 50) \div 100
TrainDataRange(total) == (total * (100 - TestSizePercent)) \div 100

\* random.sample(range(total), n): any n distinct indices, in any order
RandomSample(total, n) ==
    {s \in [1..n -> 0..(total - 1)] : \A a, b \in 1..n : a # b => s[a] # s[b]}

\* trks['lineages'][n], trks['X'][n], trks['y'][n] of the combined file
TrksOfSize(total) ==
    [lineages |-> [n \in 1..total |-> [part |-> "lineage", movie |-> n - 1]],
     X |-> [n \in 1..total |-> [part |-> "X", movie |-> n - 1]],
     y |-> [n \in 1..total |-> [part |-> "y", movie |-> n - 1]]]

\* indexing a Python sequence: element n, counted from 0
Item(list, n) == list[n + 1]

SplitInit ==
    /\ trks = <<>>
    /\ total_data_size = 0
    /\ train_data_range = 0
    /\ idx_train = <<>>
    /\ split_pos = 0
    /\ training_data = <<>>
    /\ split_pc = "load"
    /\ files = Idle /\ n_file = Idle /\ pos = Idle /\ max_frames = Idle
    /\ max_y = Idle /\ max_x = Idle /\ k = Idle /\ movie_counter = Idle
    /\ combined_data = Idle /\ cmb_pc = Idle
    /\ lineages = <<>> /\ X = <<>> /\ y = <<>> /\ i = 0
    /\ DirsIdle
    /\ PathsIdle
    /\ DockerIdle
    /\ TrainIdle
    /\ PredIdle

SplitOnly ==
    UNCHANGED <<dirVars, pathVars, dockerVars, trainVars, predVars, files, n_file, pos,
                max_frames, max_y, max_x, k, movie_counter, combined_data, cmb_pc>>

\* trks = load_trks(...); total_data_size = trks['X'].shape[0]
LoadCombined ==
    /\ split_pc = "load"
    /\ \E total \in 0..MaxTotal :
         /\ trks' = TrksOfSize(total)
         /\ total_data_size' = total
    /\ split_pc' = "sample"
    /\ UNCHANGED <<train_data_range, idx_train, split_pos, training_data, lineages, X, y, i>>
    /\ SplitOnly

\* train_data_range, idx_train and the three empty lists
SampleTrain ==
    /\ split_pc = "sample"
    /\ train_data_range' = TrainDataRange(total_data_size)
    /\ idx_train' \in RandomSample(total_data_size, train_data_range')
    /\ lineages' = <<>> /\ X' = <<>> /\ y' = <<>>
    /\ split_pos' = 0
    /\ split_pc' = "loop"
    /\ UNCHANGED <<trks, total_data_size, training_data, i>>
    /\ SplitOnly

\* for i in idx_train: the three appends
AppendTrain ==
    /\ split_pc = "loop"
    /\ split_pos < Len(idx_train)
    /\ LET next == idx_train[split_pos + 1] IN
         /\ i' = next
         /\ lineages' = Append(lineages, Item(trks.lineages, next))
         /\ X' = Append(X, Item(trks.X, next))
         /\ y' = Append(y, Item(trks.y, next))
    /\ split_pos' = split_pos + 1
    /\ UNCHANGED <<trks, total_data_size, train_data_range, idx_train, training_data,
                   split_pc>>
    /\ SplitOnly

\* save_trks(os.path.join(basepath, filename_train), lineages, X, y)
SaveTrain ==
    /\ split_pc = "loop"
    /\ split_pos = Len(idx_train)
    /\ training_data' = <<[lineages |-> lineages, X |-> X, y |-> y]>>
    /\ split_pc' = "done"
    /\ UNCHANGED <<trks, total_data_size, train_data_range, idx_train, split_pos,
                   lineages, X, y, i>>
    /\ SplitOnly

SplitNext ==
    \/ LoadCombined
    \/ SampleTrain
    \/ AppendTrain
    \/ SaveTrain

SpecSplit == SplitInit /\ [][SplitNext]_vars

\* C9: the training selection takes int(total_data_size * (1 - test_size))
\* (the integer part of nine tenths; 722 of 803) distinct indices, each in
\* 0..total_data_size-1; so combined_training_data.trks holds no movie twice,
\* at least one movie stays held out when there is any, and at each position
\* lineage, X and y come from the same movie index.
C9_TrainSelection ==
    /\ TrainDataRange(803) = 722
    /\ split_pc \in {"loop", "done"} =>
          /\ Len(idx_train) = train_data_range
          /\ 10 * train_data_range <= 9 * total_data_size
          /\ 9 * total_data_size < 10 * (train_data_range + 1)
          /\ \A n \in DOMAIN idx_train : idx_train[n] \in 0..(total_data_size - 1)
          /\ \A a, b \in DOMAIN idx_train : a # b => idx_train[a] # idx_train[b]
          /\ total_data_size >= 1 =>
                \E held \in 0..(total_data_size - 1) :
                    \A n \in DOMAIN idx_train : idx_train[n] # held
    /\ split_pc = "done" =>
          LET saved == training_data[1] IN
          /\ Len(saved.X) = train_data_range
          /\ Len(saved.lineages) = Len(saved.X) /\ Len(saved.y) = Len(saved.X)
          /\ \A a, b \in DOMAIN saved.X : a # b => saved.X[a].movie # saved.X[b].movie
          /\ \A n \in DOMAIN saved.X :
                /\ saved.lineages[n] = [part |-> "lineage", movie |-> idx_train[n]]
                /\ saved.X[n] = [part |-> "X", movie |-> idx_train[n]]
                /\ saved.y[n] = [part |-> "y", movie |-> idx_train[n]]

\* three of four movies saved, in an order that is not the file's
C9_Witness ==
    /\ split_pc = "done"
    /\ total_data_size = 4
    /\ idx_train = <<2, 0, 3>>
    /\ Len(training_data[1].X) = 3
    /\ training_data[1].y[1].movie = 2

-----------------------------------------------------------------------------
(***************************************************************************)
(* Generators and training (cells 10 and 22).  A dictionary returned by    *)
(* get_data is known by the set of movies it holds; an iterator by the     *)
(* dictionary it was built over.                                           *)
(***************************************************************************)

MaxSamples == 3   \* movies in DATA_FILE
MaxEpochs == 3    \* epochs fit_generator is followed for
MaxLoss == 3      \* the finite values of val_loss are 1..MaxLoss

\* batch_size = 128
batch_size == 128

\* get_data(DATA_FILE, seed=train_seed, test_size=test_size): two dictionaries
\* that share no movie and together hold the file's movies
GetData(movies) ==
    {[train |-> movies \ held, test |-> held] : held \in SUBSET movies}

\* tracking_utils.count_pairs(d['y'], same_probability=5.0): an estimate that
\* grows with the movies counted, here one batch of pairs for each
CountPairs(d) == Cardinality(d) * batch_size

\* datagen.flow(d, ...): an iterator over the dictionary it is given
Flow(d) == [data |-> d]

\* a float: a number, or one of the values a diverged loss takes
Num(n) == [kind |-> "num", v |-> n]
Inf == [kind |-> "inf", v |-> 0]
NaN == [kind |-> "nan", v |-> 0]

\* what validation can report as val_loss at the end of an epoch
LossChoices == {Num(n) : n \in 1..MaxLoss} \cup {Inf, NaN}

\* np.less(a, b): false whenever either side is NaN
Less(a, b) ==
    /\ a.kind # "nan"
    /\ b.kind # "nan"
    /\ a.kind # "inf"
    /\ \/ b.kind = "inf"
       \/ a.v < b.v

\* np.less_equal(a, b)
LessEqual(a, b) ==
    /\ a.kind # "nan"
    /\ b.kind # "nan"
    /\ \/ b.kind = "inf"
       \/ a.kind = "num" /\ a.v <= b.v

\* a callback that also takes a loss equal to the recorded best for better
MonitorOpOrEqual(current, recorded) == LessEqual(current, recorded)

\* the checkpoint callback made by get_callbacks(model_path, ...,
\* monitor='val_loss'): a monitored loss improves when it is less than best
MonitorOp(current, recorded) == Less(current, recorded)

TrainInit ==
    /\ data_file \in {1..n : n \in 1..MaxSamples}
    /\ train_dict = {} /\ test_dict = {}
    /\ train_data = Flow({}) /\ test_data = Flow({})
    /\ total_train_pairs = 0 /\ total_test_pairs = 0
    /\ epoch = 0 /\ batches = 0
    /\ trained_on = {} /\ validated_on = {}
    /\ train_pc = "get_data"
    /\ val_loss = <<>> /\ best = Inf /\ model_file = 0 /\ saves = {}
    /\ DirsIdle
    /\ PathsIdle
    /\ DockerIdle
    /\ CombineIdle
    /\ SplitIdle
    /\ PredIdle

TrainOnly ==
    UNCHANGED <<dirVars, pathVars, dockerVars, combineVars, splitVars, predVars>>

\* train_dict, test_dict = get_data(...)
CallGetData ==
    /\ train_pc = "get_data"
    /\ \E split \in GetData(data_file) :
         /\ train_dict' = split.train
         /\ test_dict' = split.test
    /\ train_pc' = "flow_train"
    /\ UNCHANGED <<data_file, train_data, test_data, total_train_pairs, total_test_pairs,
                   epoch, batches, trained_on, validated_on>>
    /\ UNCHANGED ckptVars
    /\ TrainOnly

\* train_data = datagen_train.flow(test_dict, ...)
FlowTrain ==
    /\ train_pc = "flow_train"
    /\ train_data' = Flow(test_dict)
    /\ train_pc' = "flow_test"
    /\ UNCHANGED <<data_file, train_dict, test_dict, test_data, total_train_pairs,
                   total_test_pairs, epoch, batches, trained_on, validated_on>>
    /\ UNCHANGED ckptVars
    /\ TrainOnly

\* test_data = datagen_test.flow(test_dict, ...)
FlowTest ==
    /\ train_pc = "flow_test"
    /\ test_data' = Flow(test_dict)
    /\ train_pc' = "count"
    /\ UNCHANGED <<data_file, train_dict, test_dict, train_data, total_train_pairs,
                   total_test_pairs, epoch, batches, trained_on, validated_on>>
    /\ UNCHANGED ckptVars
    /\ TrainOnly

StepsPerEpoch == total_train_pairs \div batch_size
ValidationSteps == total_test_pairs \div batch_size

\* total_train_pairs, total_test_pairs, and fit_generator is entered
CountAndFit ==
    /\ train_pc = "count"
    /\ total_train_pairs' = CountPairs(train_dict)
    /\ total_test_pairs' = CountPairs(test_dict)
    /\ epoch' = 0
    /\ batches' = 0
    /\ train_pc' = "fit_train"
    /\ UNCHANGED <<data_file, train_dict, test_dict, train_data, test_data, trained_on,
                   validated_on>>
    /\ UNCHANGED ckptVars
    /\ TrainOnly

\* one training step: next(train_data); an iterator over nothing cannot yield
TrainBatch ==
    /\ train_pc = "fit_train"
    /\ epoch < MaxEpochs
    /\ batches < StepsPerEpoch
    /\ \E movie \in train_data.data : trained_on' = trained_on \cup {movie}
    /\ batches' = batches + 1
    /\ UNCHANGED <<data_file, train_dict, test_dict, train_data, test_data,
                   total_train_pairs, total_test_pairs, epoch, validated_on, train_pc>>
    /\ UNCHANGED ckptVars
    /\ TrainOnly

\* steps_per_epoch steps are done: validation begins
StartValidation ==
    /\ train_pc = "fit_train"
    /\ epoch < MaxEpochs
    /\ batches = StepsPerEpoch
    /\ batches' = 0
    /\ train_pc' = "fit_val"
    /\ UNCHANGED <<data_file, train_dict, test_dict, train_data, test_data,
                   total_train_pairs, total_test_pairs, epoch, trained_on, validated_on>>
    /\ UNCHANGED ckptVars
    /\ TrainOnly

\* one validation step: next(test_data)
ValidationBatch ==
    /\ train_pc = "fit_val"
    /\ batches < ValidationSteps
    /\ \E movie \in test_data.data : validated_on' = validated_on \cup {movie}
    /\ batches' = batches + 1
    /\ UNCHANGED <<data_file, train_dict, test_dict, train_data, test_data,
                   total_train_pairs, total_test_pairs, epoch, trained_on, train_pc>>
    /\ UNCHANGED ckptVars
    /\ TrainOnly

\* the epoch ends with its val_loss and the callbacks run: "val_loss improved
\* from ... saving model to ..." or "val_loss did not improve from ...";
\* after the last epoch fit_generator returns
EpochEnd ==
    /\ train_pc = "fit_val"
    /\ batches = ValidationSteps
    /\ \E current \in LossChoices :
         /\ val_loss' = Append(val_loss, current)
         /\ IF MonitorOp(current, best)
               THEN /\ best' = current
                    /\ model_file' = epoch + 1
                    /\ saves' = saves \cup {epoch + 1}
               ELSE UNCHANGED <<best, model_file, saves>>
    /\ epoch' = epoch + 1
    /\ batches' = 0
    /\ train_pc' = IF epoch + 1 = MaxEpochs THEN "done" ELSE "fit_train"
    /\ UNCHANGED <<data_file, train_dict, test_dict, train_data, test_data,
                   total_train_pairs, total_test_pairs, trained_on, validated_on>>
    /\ TrainOnly

TrainNext ==
    \/ CallGetData
    \/ FlowTrain
    \/ FlowTest
    \/ CountAndFit
    \/ TrainBatch
    \/ StartValidation
    \/ ValidationBatch
    \/ EpochEnd

SpecTrain == TrainInit /\ [][TrainNext]_vars

IteratorsBuilt == train_pc \in {"count", "fit_train", "fit_val", "done"}

\* C8: train_data is fed train_dict and test_data is fed the held-out
\* test_dict, so no movie used for validation is also used for training, and
\* steps_per_epoch counts pairs of the split train_data iterates over.
C8_TrainOnTrainSplit ==
    /\ IteratorsBuilt =>
          /\ train_data.data = train_dict
          /\ test_data.data = test_dict
    /\ trained_on \cap validated_on = {}
    /\ train_pc \in {"fit_train", "fit_val", "done"} =>
          StepsPerEpoch = CountPairs(train_data.data) \div batch_size

\* the finite val_loss values of the epochs before epoch e
EarlierLosses(e) ==
    {val_loss[n].v : n \in {m \in 1..(e - 1) : val_loss[m].kind = "num"}}

\* epoch e's val_loss is a number strictly lower than every earlier one
StrictlyLowest(e) ==
    /\ val_loss[e].kind = "num"
    /\ \A earlier \in EarlierLosses(e) : val_loss[e].v < earlier

\* the epochs with a finite val_loss, and the earliest of the lowest of them
FiniteEpochs == {e \in 1..Len(val_loss) : val_loss[e].kind = "num"}

LowestEpochs ==
    {e \in FiniteEpochs : \A other \in FiniteEpochs : val_loss[e].v <= val_loss[other].v}

\* the file is written at the end of exactly the epochs that improved
SavedExactlyOnImprovement ==
    \A e \in 1..Len(val_loss) : (e \in saves) <=> StrictlyLowest(e)

-----------------------------------------------------------------------------
(***************************************************************************)
(* The segmentation application (Nuclear-Application notebook).  A stack   *)
(* is known by its shape <<frames, height, width>>; resolutions are in     *)
(* hundredths of a micron per pixel.                                       *)
(***************************************************************************)

MaxPredSide == 4   \* small heights and widths of x, beside the notebook's

\* app.model_mpp: "Training Resolution: 0.65 microns per pixel"
model_mpp == 65

\* x = X_train[56] has shape (40, 216, 256, 1)
NotebookShape == <<40, 216, 256>>

\* image_mpp=.75 in the notebook; finer, equal and coarser resolutions beside
MppChoices == {50, model_mpp, 75, 130}

PredShapeChoices ==
    {<<f, h, w>> : f \in {1, NotebookShape[1]},
                   h \in (1..MaxPredSide) \cup {NotebookShape[2]},
                   w \in (1..MaxPredSide) \cup {NotebookShape[3]}}

\* int(n * from_mpp / to_mpp): a side of n pixels at the other resolution
Rescale(n, from_mpp, to_mpp) == (n * from_mpp) \div to_mpp

\* "rescale the input data to match the training resolution": the frames are
\* kept, height and width are scaled by image_mpp / model_mpp
ResizeInput(shape, mpp) ==
    <<shape[1], Rescale(shape[2], mpp, model_mpp), Rescale(shape[3], mpp, model_mpp)>>

\* the network labels every pixel of every frame it is given
RunModel(shape) == shape

\* a resize back by the inverse factor model_mpp / image_mpp
ResizeOutputByFactor(shape, original, mpp) ==
    <<shape[1], Rescale(shape[2], model_mpp, mpp), Rescale(shape[3], model_mpp, mpp)>>

\* "and then rescale to the original size": height and width of the input
ResizeOutput(shape, original, mpp) == <<shape[1], original[2], original[3]>>

PredInit ==
    /\ x_shape \in PredShapeChoices
    /\ image_mpp \in MppChoices
    /\ resized_shape = NoShape
    /\ labeled_shape = NoShape
    /\ y_pred_shape = NoShape
    /\ pred_pc = "call"
    /\ DirsIdle
    /\ PathsIdle
    /\ DockerIdle
    /\ CombineIdle
    /\ SplitIdle
    /\ TrainIdle

PredOnly ==
    UNCHANGED <<dirVars, pathVars, dockerVars, combineVars, splitVars, trainVars>>

\* y_pred = app.predict(x, image_mpp=...) is entered and x is rescaled; an
\* image cannot be resized to no pixels
PredictResizeInput ==
    /\ pred_pc = "call"
    /\ resized_shape' = ResizeInput(x_shape, image_mpp)
    /\ pred_pc' = IF resized_shape'[2] = 0 \/ resized_shape'[3] = 0
                    THEN "raised"
                    ELSE "resized"
    /\ UNCHANGED <<x_shape, image_mpp, labeled_shape, y_pred_shape>>
    /\ PredOnly

\* the network runs on the rescaled stack
PredictRunModel ==
    /\ pred_pc = "resized"
    /\ labeled_shape' = RunModel(resized_shape)
    /\ pred_pc' = "labeled"
    /\ UNCHANGED <<x_shape, image_mpp, resized_shape, y_pred_shape>>
    /\ PredOnly

\* the labels are rescaled and returned: y_pred is bound
PredictResizeOutput ==
    /\ pred_pc = "labeled"
    /\ y_pred_shape' = ResizeOutput(labeled_shape, x_shape, image_mpp)
    /\ pred_pc' = "done"
    /\ UNCHANGED <<x_shape, image_mpp, resized_shape, labeled_shape>>
    /\ PredOnly

PredNext ==
    \/ PredictResizeInput
    \/ PredictRunModel
    \/ PredictResizeOutput

SpecPredict == PredInit /\ [][PredNext]_vars

====
